---- MODULE Spec2Model ----
(***************************************************************************)
(* Model of the VaR calculator:                                            *)
(*   - the return series provider (financial-data: parseCsvData,           *)
(*     calculateDailyReturns, getHistoricalData), and                      *)
(*   - the page component that drives it (VarModelPage: the instrument     *)
(*     list handlers, the debounced effect and runCalculation).            *)
(* Two specifications share the module: SpecProvider runs one call of      *)
(* getHistoricalData over every bounded source and instrument list;        *)
(* SpecConcurrent runs one call while the source is being edited; Spec     *)
(* runs the page component.                                                *)
(***************************************************************************)
EXTENDS Integers, Sequences, FiniteSets, TLC

VARIABLES
    file,            \* the CSV source: [readable, lines]
    reqInstruments,  \* getHistoricalData's argument
    pcP,             \* position of the getHistoricalData call
    allPriceData,    \* getHistoricalData's local allPriceData
    returnsData,     \* getHistoricalData's result
    readLog,         \* history: the source contents readFileSync returned
    instruments,     \* useState: the instrument list as last rendered
    simulationMethod,\* useState: the method as last rendered
    varResults,      \* useState: the displayed result
    isCalculating,   \* useState: the in-flight flag
    pending,         \* state updates queued by handlers since the last render
    timers,          \* the live setTimeout timers, each with its closure
    runs,            \* every runCalculation started: its closure and fate
    renders,         \* history: the renders at which the effect ran
    toasts,          \* the titles of the notifications shown
    now,             \* the clock, in ms
    nextId,          \* stands for crypto.randomUUID(): the next fresh id
    ops              \* the number of handler calls so far

providerVars == <<file, reqInstruments, pcP, allPriceData, returnsData, readLog>>

pageVars ==
    <<instruments, simulationMethod, varResults, isCalculating, pending,
      timers, runs, renders, toasts, now, nextId, ops>>

vars == <<providerVars, pageVars>>

(***************************************************************************)
(* Bounds of the model.                                                    *)
(***************************************************************************)
MaxRows == 3
MaxReq == 2
MaxOps == 3
MaxTime == 1500
TickMs == 250
MaxSourceRows == 2

(***************************************************************************)
(* JavaScript numbers.  A number is finite (an exact fraction num/den in   *)
(* lowest terms, den > 0), NaN, or an infinity (num is its sign).  IEEE    *)
(* rounding and the sign of zero are not modelled.                         *)
(***************************************************************************)
Fin(n) == [kind |-> "fin", num |-> n, den |-> 1]

NaN == [kind |-> "nan", num |-> 0, den |-> 1]

Infinity(sign) == [kind |-> "inf", num |-> sign, den |-> 1]

Abs(n) == IF n < 0 THEN -n ELSE n

RECURSIVE GCD(_, _)
GCD(a, b) == IF b = 0 THEN a ELSE GCD(b, a % b)

\* The fraction n/d (d # 0) in lowest terms with a positive denominator.
Fraction(n, d) ==
    LET g == GCD(Abs(n), Abs(d))
        s == IF d < 0 THEN -1 ELSE 1
    IN  [kind |-> "fin", num |-> (s * n) \div g, den |-> (s * d) \div g]

\* x === 0
IsZero(x) == x.kind = "fin" /\ x.num = 0

\* x - y on finite or NaN operands (prices).
Sub(x, y) ==
    IF x.kind = "fin" /\ y.kind = "fin"
    THEN Fraction(x.num * y.den - y.num * x.den, x.den * y.den)
    ELSE NaN

\* x / y on finite or NaN operands: a zero divisor gives an infinity or NaN.
Div(x, y) ==
    IF x.kind # "fin" \/ y.kind # "fin" THEN NaN
    ELSE IF y.num = 0
         THEN IF x.num > 0 THEN Infinity(1)
              ELSE IF x.num < 0 THEN Infinity(-1)
              ELSE NaN
    ELSE Fraction(x.num * y.den, x.den * y.num)

(***************************************************************************)
(* The source.  A line is the sequence of its comma-separated fields; the  *)
(* empty line splits into one empty field.                                 *)
(***************************************************************************)
DateStrs == {"2024-01-01", "2024-01-02", "2024-01-03"}

SymbolStrs == {"A", "B"}

PriceStrs == {"0", "100", "abc"}

EmptyLine == <<"">>

Header == <<"date", "symbol", "price">>

FullRows == {<<d, s, p>> : d \in DateStrs, s \in SymbolStrs, p \in PriceStrs}

\* Rows with a missing field, an extra field, an invalid date or a negative
\* price.
IrregularRows ==
    { EmptyLine,
      <<"2024-01-01">>,
      <<"2024-01-01", "A">>,
      <<"", "A", "100">>,
      <<"2024-01-01", "", "100">>,
      <<"2024-01-01", "A", "">>,
      <<"2024-01-02", "A", "100", "x">>,
      <<"n/a", "A", "100">>,
      <<"n/a", "A", "0">>,
      <<"2024-01-02", "A", "-5">> }

Rows == FullRows \cup IrregularRows

\* parseFloat on the price fields of the model.
ParseFloat(str) ==
    CASE str = "0" -> Fin(0)
      [] str = "100" -> Fin(100)
      [] str = "-5" -> Fin(-5)
      [] OTHER -> NaN

\* new Date(str).getTime(), in days; NaN for an invalid date.
GetTime(str) ==
    CASE str = "2024-01-01" -> Fin(1)
      [] str = "2024-01-02" -> Fin(2)
      [] str = "2024-01-03" -> Fin(3)
      [] OTHER -> NaN

\* The k-th element of row.split(','), "" standing for undefined.
Field(row, k) == IF k <= Len(row) THEN row[k] ELSE ""

EmptyMap == [s \in {} |-> <<>>]

\* data.get(symbol) ?? []
MapGet(data, symbol) == IF symbol \in DOMAIN data THEN data[symbol] ELSE <<>>

\* data.set(symbol, value)
MapSet(data, symbol, value) ==
    [s \in DOMAIN data \cup {symbol} |-> IF s = symbol THEN value ELSE data[s]]

(***************************************************************************)
(* parseCsvData                                                            *)
(***************************************************************************)
\* fileContent.split('\n').slice(1)
DataRows(lines) == IF lines = <<>> THEN <<>> ELSE Tail(lines)

\* Mutant of SkipRow: only the empty line is skipped.
SkipRowEmptyOnly(row) == row = EmptyLine

\* The two "continue" tests of the row loop.
SkipRow(row) ==
    \/ row = EmptyLine
    \/ Field(row, 1) = "" \/ Field(row, 2) = "" \/ Field(row, 3) = ""

\* { date: new Date(dateStr), price: parseFloat(priceStr) }
PriceRecord(row) ==
    [date |-> GetTime(Field(row, 1)), price |-> ParseFloat(Field(row, 3))]

\* Mutant of GroupRows: the symbols share one array of records.
RECURSIVE GroupRowsShared(_, _)
GroupRowsShared(rows, data) ==
    IF rows = <<>> THEN data
    ELSE LET row == Head(rows)
             symbol == Field(row, 2)
             shared == IF DOMAIN data = {} THEN <<>>
                       ELSE data[CHOOSE s \in DOMAIN data : TRUE]
         IN  IF SkipRow(row)
             THEN GroupRowsShared(Tail(rows), data)
             ELSE GroupRowsShared(Tail(rows),
                                  [s \in DOMAIN data \cup {symbol} |->
                                      Append(shared, PriceRecord(row))])

\* The row loop: the records of every kept row, appended under its symbol.
RECURSIVE GroupRows(_, _)
GroupRows(rows, data) ==
    IF rows = <<>> THEN data
    ELSE LET row == Head(rows)
             symbol == Field(row, 2)
         IN  IF SkipRow(row)
             THEN GroupRows(Tail(rows), data)
             ELSE GroupRows(Tail(rows),
                            MapSet(data, symbol,
                                   Append(MapGet(data, symbol), PriceRecord(row))))

\* The comparator (a, b) => a.date.getTime() - b.date.getTime(), as the sort
\* reads it: a NaN result counts as 0.
CompareDates(a, b) ==
    LET v == Sub(a.date, b.date)
    IN  IF v.kind = "fin" THEN v.num ELSE 0

RECURSIVE InsertByDate(_, _)
InsertByDate(sorted, rec) ==
    IF sorted = <<>> THEN <<rec>>
    ELSE IF CompareDates(Head(sorted), rec) > 0
         THEN <<rec>> \o sorted
         ELSE <<Head(sorted)>> \o InsertByDate(Tail(sorted), rec)

\* The stable sort of Array.prototype.sort under a consistent comparator.
RECURSIVE StableSortByDate(_)
StableSortByDate(records) ==
    IF records = <<>> THEN <<>>
    ELSE InsertByDate(StableSortByDate(SubSeq(records, 1, Len(records) - 1)),
                      records[Len(records)])

\* The comparator is consistent on the records unless an invalid date (which
\* compares equal to every date) meets two different valid dates.
ConsistentComparator(records) ==
    \/ \A i \in DOMAIN records : records[i].date.kind = "fin"
    \/ \A i, j \in DOMAIN records :
           (records[i].date.kind = "fin" /\ records[j].date.kind = "fin")
               => records[i].date = records[j].date

Reorderings(seq) ==
    {[i \in 1..Len(seq) |-> seq[p[i]]] : p \in Permutations(1..Len(seq))}

\* Mutant of SortOutcomes: the records are left in source order.
SortOutcomesUnsorted(records) == {records}

\* What records.sort(comparator) may leave: the stable sort, or, under an
\* inconsistent comparator, an implementation-defined order.
SortOutcomes(records) ==
    IF ConsistentComparator(records)
    THEN {StableSortByDate(records)}
    ELSE Reorderings(records)

\* An outcome of a call: the value it returns, or the fault it throws.
Returned(value) == [threw |-> FALSE, value |-> value]

Thrown == [threw |-> TRUE, value |-> EmptyMap]

\* The try block: fs.readFileSync throws on an unreadable source; otherwise
\* the rows are grouped and each symbol's records sorted.
TryBlockOutcomes(f) ==
    IF ~f.readable THEN {Thrown}
    ELSE LET data == GroupRows(DataRows(f.lines), EmptyMap)
         IN  {Returned(d) :
                 d \in {m \in [DOMAIN data ->
                                  UNION {SortOutcomes(data[s]) : s \in DOMAIN data}] :
                            \A s \in DOMAIN data : m[s] \in SortOutcomes(data[s])}}

\* Mutant of ParseCsvDataOutcomes: no catch block, the fault propagates.
ParseCsvDataUncaught(f) == TryBlockOutcomes(f)

\* Every outcome of parseCsvData over the source f: the catch block turns a
\* fault of the try block into the empty map.
ParseCsvDataOutcomes(f) ==
    {IF o.threw THEN Returned(EmptyMap) ELSE o : o \in TryBlockOutcomes(f)}

(***************************************************************************)
(* calculateDailyReturns                                                   *)
(***************************************************************************)
\* Mutant of DailyReturn: no test for a zero price.
DailyReturnUnguarded(yesterdayPrice, todayPrice) ==
    Div(Sub(todayPrice, yesterdayPrice), yesterdayPrice)

DailyReturn(yesterdayPrice, todayPrice) ==
    IF IsZero(yesterdayPrice)
    THEN Fin(0)
    ELSE Div(Sub(todayPrice, yesterdayPrice), yesterdayPrice)

\* Mutant of DailyReturnsLoop: a day after a zero price is skipped, not
\* pushed as 0.
RECURSIVE DailyReturnsLoopSkipZero(_, _, _)
DailyReturnsLoopSkipZero(prices, i, returns) ==
    IF i < Len(prices)
    THEN DailyReturnsLoopSkipZero(prices, i + 1,
             IF IsZero(prices[i].price)
             THEN returns
             ELSE Append(returns, DailyReturn(prices[i].price, prices[i + 1].price)))
    ELSE returns

RECURSIVE DailyReturnsLoop(_, _, _)
DailyReturnsLoop(prices, i, returns) ==
    IF i < Len(prices)
    THEN DailyReturnsLoop(prices, i + 1,
             Append(returns, DailyReturn(prices[i].price, prices[i + 1].price)))
    ELSE returns

\* i is the 1-based index of yesterday's record: the loop starts at the
\* second record.
CalculateDailyReturns(prices) == DailyReturnsLoop(prices, 1, <<>>)

(***************************************************************************)
(* getHistoricalData                                                       *)
(***************************************************************************)
\* Mutant of SeriesGuard: instrumentPrices.length > 1 alone.
SeriesGuardUnchecked(priceData, symbol) ==
    IF symbol \notin DOMAIN priceData THEN "TypeError"
    ELSE IF Len(priceData[symbol]) > 1 THEN "true"
    ELSE "false"

\* instrumentPrices && instrumentPrices.length > 1: "true", "false", or
\* "TypeError" were .length read of undefined (the && keeps it from that).
SeriesGuard(priceData, symbol) ==
    IF symbol \notin DOMAIN priceData THEN "false"
    ELSE IF Len(priceData[symbol]) > 1 THEN "true"
    ELSE "false"

\* The series stored for one instrument.
SeriesFor(priceData, symbol) ==
    IF SeriesGuard(priceData, symbol) = "true"
    THEN CalculateDailyReturns(priceData[symbol])
    ELSE <<>>

RECURSIVE ReturnsLoop(_, _, _)
ReturnsLoop(insts, priceData, returns) ==
    IF insts = <<>> THEN Returned(returns)
    ELSE LET symbol == Head(insts).symbol
         IN  IF SeriesGuard(priceData, symbol) = "TypeError"
             THEN Thrown
             ELSE ReturnsLoop(Tail(insts), priceData,
                              MapSet(returns, symbol, SeriesFor(priceData, symbol)))

\* Every outcome of getHistoricalData(insts) over the source f.
GetHistoricalDataOutcomes(f, insts) ==
    {IF o.threw THEN Thrown ELSE ReturnsLoop(insts, o.value, EmptyMap) :
        o \in ParseCsvDataOutcomes(f)}

(***************************************************************************)
(* VarModelPage: values                                                    *)
(***************************************************************************)
Instrument(id, symbol, included) ==
    [id |-> id, symbol |-> symbol, included |-> included]

Methods == {"parametric", "historical"}

PageSymbols == {"A", "B"}

DebounceMs == 500

\* varResults is null or a VaRResult.
Null == [kind |-> "null"]

\* setTimeout(() => runCalculation(), 500): the timer and the instruments and
\* method its runCalculation closes over.
Timer(id, due, insts, method) ==
    [id |-> id, due |-> due, instruments |-> insts, method |-> method]

Rendering(at, insts, method) ==
    [at |-> at, instruments |-> insts, method |-> method]

\* Mutant of ActiveInstruments: the list is passed on unfiltered.
ActiveInstrumentsUnfiltered(insts) == insts

\* instruments.filter(inst => inst.included)
RECURSIVE ActiveInstruments(_)
ActiveInstruments(insts) ==
    IF insts = <<>> THEN <<>>
    ELSE IF Head(insts).included
         THEN <<Head(insts)>> \o ActiveInstruments(Tail(insts))
         ELSE ActiveInstruments(Tail(insts))

\* instruments.find(inst => inst.symbol === symbol), as a test
HasSymbol(insts, symbol) == \E i \in DOMAIN insts : insts[i].symbol = symbol

(***************************************************************************)
(* One call of getHistoricalData, in the two steps its await separates.    *)
(***************************************************************************)

RowSeqs == UNION {[1..n -> Rows] : n \in 0..MaxRows}

UnreadableFile == [readable |-> FALSE, lines |-> <<>>]

Files ==
    {UnreadableFile, [readable |-> TRUE, lines |-> <<EmptyLine>>]}
        \cup {[readable |-> TRUE, lines |-> <<Header>> \o rows] : rows \in RowSeqs}

ReqSymbols == {"A", "C"}

Requests ==
    UNION {{[i \in 1..n |-> Instrument(i, syms[i], TRUE)] : syms \in [1..n -> ReqSymbols]} :
              n \in 0..MaxReq}

\* The page component as mounted: the initial useState values, and the timer
\* the effect sets on the first render.
InitPage ==
    /\ instruments = <<>>
    /\ simulationMethod = "parametric"
    /\ varResults = Null
    /\ isCalculating = FALSE
    /\ pending = <<>>
    /\ timers = {Timer(1, DebounceMs, <<>>, "parametric")}
    /\ runs = EmptyMap
    /\ renders = <<Rendering(0, <<>>, "parametric")>>
    /\ toasts = {}
    /\ now = 0
    /\ nextId = 1
    /\ ops = 0

InitProvider ==
    /\ file \in Files
    /\ reqInstruments \in Requests
    /\ pcP = "start"
    /\ allPriceData = EmptyMap
    /\ returnsData = EmptyMap
    /\ readLog = <<>>
    /\ InitPage

\* const allPriceData = await parseCsvData();
ParseCsvData ==
    /\ pcP = "start"
    /\ \E o \in ParseCsvDataOutcomes(file) :
           /\ allPriceData' = o.value
           /\ pcP' = IF o.threw THEN "raised" ELSE "parsed"
    /\ readLog' = Append(readLog, file)
    /\ UNCHANGED <<file, reqInstruments, returnsData, pageVars>>

\* Mutant of ComputeReturns: the instrument loop parses the source again.
ComputeReturnsRereading ==
    /\ pcP = "parsed"
    /\ \E p \in ParseCsvDataOutcomes(file) :
           LET o == IF p.threw THEN Thrown
                    ELSE ReturnsLoop(reqInstruments, p.value, EmptyMap)
           IN  /\ returnsData' = o.value
               /\ pcP' = IF o.threw THEN "raised" ELSE "done"
    /\ readLog' = Append(readLog, file)
    /\ UNCHANGED <<file, reqInstruments, allPriceData, pageVars>>

\* The instrument loop and the return.
ComputeReturns ==
    /\ pcP = "parsed"
    /\ LET o == ReturnsLoop(reqInstruments, allPriceData, EmptyMap)
       IN  /\ returnsData' = o.value
           /\ pcP' = IF o.threw THEN "raised" ELSE "done"
    /\ UNCHANGED <<file, reqInstruments, allPriceData, readLog, pageVars>>

NextProvider == ParseCsvData \/ ComputeReturns

SpecProvider == InitProvider /\ [][NextProvider]_vars

(***************************************************************************)
(* One call of getHistoricalData while another process edits the source.   *)
(***************************************************************************)
ConcurrentRows ==
    { <<"2024-01-01", "A", "100">>, <<"2024-01-02", "A", "0">>,
      <<"2024-01-01", "B", "100">>, <<"2024-01-02", "B", "0">> }

ConcurrentFiles ==
    {UnreadableFile}
        \cup {[readable |-> TRUE, lines |-> <<Header>> \o rows] :
                rows \in UNION {[1..n -> ConcurrentRows] : n \in 0..MaxSourceRows}}

ConcurrentRequests ==
    { <<Instrument(1, "A", TRUE)>>,
      <<Instrument(1, "A", TRUE), Instrument(2, "B", TRUE)>> }

\* One edit of the source by another process: a row appended, a row
\* removed, the source made unreadable or created anew.
Edits(f) ==
    IF ~f.readable
    THEN {[readable |-> TRUE, lines |-> <<Header>>]}
    ELSE {UnreadableFile}
           \cup {[f EXCEPT !.lines = Append(f.lines, row)] : row \in ConcurrentRows}
           \cup {[f EXCEPT !.lines = SubSeq(f.lines, 1, i - 1)
                                        \o SubSeq(f.lines, i + 1, Len(f.lines))] :
                    i \in 2..Len(f.lines)}

InitConcurrent ==
    /\ file \in ConcurrentFiles
    /\ reqInstruments \in ConcurrentRequests
    /\ pcP = "start"
    /\ allPriceData = EmptyMap
    /\ returnsData = EmptyMap
    /\ readLog = <<>>
    /\ InitPage

\* Another process edits the source while the call is under way, before
\* the read or between the read and the instrument loop.
ModifySource(f) ==
    /\ pcP \in {"start", "parsed"}
    /\ f \in Edits(file)
    /\ f \in ConcurrentFiles
    /\ file' = f
    /\ UNCHANGED <<reqInstruments, pcP, allPriceData, returnsData, readLog, pageVars>>

NextConcurrent ==
    \/ ParseCsvData
    \/ ComputeReturns
    \/ \E f \in ConcurrentFiles : ModifySource(f)

SpecConcurrent == InitConcurrent /\ [][NextConcurrent]_vars

(***************************************************************************)
(* VarModelPage: the handlers, the render with its effect, the timer and   *)
(* runCalculation.  A handler runs against the list as last rendered and   *)
(* queues its update; the render applies the queue.  A render follows the  *)
(* handlers of an event before time passes or any callback runs.           *)
(***************************************************************************)
Update(op, id, symbol, method) ==
    [op |-> op, id |-> id, symbol |-> symbol, method |-> method]

\* prev.filter((inst) => inst.id !== id)
RECURSIVE WithoutId(_, _)
WithoutId(prev, id) ==
    IF prev = <<>> THEN <<>>
    ELSE IF Head(prev).id # id
         THEN <<Head(prev)>> \o WithoutId(Tail(prev), id)
         ELSE WithoutId(Tail(prev), id)

\* prev.map(inst => inst.id === id ? { ...inst, included: !inst.included } : inst)
Toggled(prev, id) ==
    [i \in DOMAIN prev |->
        IF prev[i].id = id
        THEN Instrument(prev[i].id, prev[i].symbol, ~prev[i].included)
        ELSE prev[i]]

\* One queued update applied to the state [instruments, method].
ApplyUpdate(state, u) ==
    CASE u.op = "add" ->
            [state EXCEPT !.instruments = Append(@, Instrument(u.id, u.symbol, TRUE))]
      [] u.op = "remove" ->
            [state EXCEPT !.instruments = WithoutId(@, u.id)]
      [] u.op = "toggle" ->
            [state EXCEPT !.instruments = Toggled(@, u.id)]
      [] OTHER ->
            [state EXCEPT !.method = u.method]

RECURSIVE ApplyUpdates(_, _)
ApplyUpdates(state, queue) ==
    IF queue = <<>> THEN state
    ELSE ApplyUpdates(ApplyUpdate(state, Head(queue)), Tail(queue))

\* Mutant of ClearTimeout: the effect's cleanup leaves the timer alive.
ClearTimeoutNoop(ts, id) == ts

\* clearTimeout(debounceTimer)
ClearTimeout(ts, id) == {t \in ts : t.id # id}

\* A runCalculation: the active instruments and method of its closure, how
\* far it got, whether it invoked the provider and the engine, and the
\* returns mapping it handed the engine.
Run(active, method, status, provider, engine) ==
    [active |-> active, method |-> method, status |-> status,
     provider |-> provider, engine |-> engine, data |-> EmptyMap]

\* Mutant of NoneActive: no short-circuit on an empty active list.
NoneActiveNever(active) == FALSE

\* activeInstruments.length === 0
NoneActive(active) == active = <<>>

\* Array.from(data.entries())
Entries(data) == {<<k, data[k]>> : k \in DOMAIN data}

\* new Map(historicalDataArray)
MapOf(entries) ==
    [k \in {e[1] : e \in entries} |-> (CHOOSE e \in entries : e[1] = k)[2]]

\* What the await of getHistoricalDataOnClient may yield over the source f.
GetHistoricalDataOnClientOutcomes(f, active) ==
    {IF o.threw THEN Thrown ELSE Returned(MapOf(Entries(o.value))) :
        o \in GetHistoricalDataOutcomes(f, active)}

\* calculateVaR: a VaRResult determined by its three arguments, or a fault.
CalculateVaROutcomes(active, historicalData, method) ==
    { Returned([kind |-> "result", instruments |-> active,
                data |-> historicalData, method |-> method]),
      Thrown }

\* The catch block of runCalculation: what it leaves in varResults.
AfterCatch(results) == results

AddInstrument(symbol) ==
    /\ ops < MaxOps
    /\ ops' = ops + 1
    /\ IF HasSymbol(instruments, symbol)
       THEN /\ toasts' = toasts \cup {"Instrument Exists"}
            /\ UNCHANGED <<pending, nextId>>
       ELSE /\ pending' = Append(pending, Update("add", nextId, symbol, ""))
            /\ nextId' = nextId + 1
            /\ UNCHANGED toasts
    /\ UNCHANGED <<instruments, simulationMethod, varResults, isCalculating,
                   timers, runs, renders, now, providerVars>>

RemoveInstrument(id) ==
    /\ ops < MaxOps
    /\ ops' = ops + 1
    /\ pending' = Append(pending, Update("remove", id, "", ""))
    /\ UNCHANGED <<instruments, simulationMethod, varResults, isCalculating,
                   timers, runs, renders, toasts, now, nextId, providerVars>>

ToggleInstrument(id) ==
    /\ ops < MaxOps
    /\ ops' = ops + 1
    /\ pending' = Append(pending, Update("toggle", id, "", ""))
    /\ UNCHANGED <<instruments, simulationMethod, varResults, isCalculating,
                   timers, runs, renders, toasts, now, nextId, providerVars>>

SetSimulationMethod(method) ==
    /\ ops < MaxOps
    /\ ops' = ops + 1
    /\ pending' = Append(pending, Update("method", 0, "", method))
    /\ UNCHANGED <<instruments, simulationMethod, varResults, isCalculating,
                   timers, runs, renders, toasts, now, nextId, providerVars>>

\* The render after an event, and the effect: setInstruments always stores a
\* new array, so runCalculation changes and the effect reruns whenever an
\* instrument update was queued or the method differs.
Render ==
    /\ pending # <<>>
    /\ LET state == ApplyUpdates([instruments |-> instruments,
                                  method |-> simulationMethod], pending)
           depsChanged ==
               \/ \E i \in DOMAIN pending : pending[i].op # "method"
               \/ state.method # simulationMethod
       IN  /\ instruments' = state.instruments
           /\ simulationMethod' = state.method
           /\ IF depsChanged
              THEN /\ timers' = ClearTimeout(timers, Len(renders))
                                   \cup {Timer(Len(renders) + 1, now + DebounceMs,
                                               state.instruments, state.method)}
                   /\ renders' = Append(renders,
                                        Rendering(now, state.instruments, state.method))
              ELSE UNCHANGED <<timers, renders>>
    /\ pending' = <<>>
    /\ UNCHANGED <<varResults, isCalculating, runs, toasts, now, nextId, ops,
                   providerVars>>

\* Time passes, up to the next timer that is due.
Advance ==
    /\ pending = <<>>
    /\ now < MaxTime
    /\ \A t \in timers : now < t.due
    /\ LET next == {now + TickMs} \cup {t.due : t \in timers}
       IN  now' = CHOOSE m \in next : \A n \in next : m <= n
    /\ UNCHANGED <<instruments, simulationMethod, varResults, isCalculating,
                   pending, timers, runs, renders, toasts, nextId, ops,
                   providerVars>>

\* The timer fires: runCalculation up to its return or its await.
TimerFire(t) ==
    /\ pending = <<>>
    /\ t.due <= now
    /\ timers' = timers \ {t}
    /\ LET active == ActiveInstruments(t.instruments)
       IN  IF NoneActive(active)
           THEN /\ varResults' = Null
                /\ isCalculating' = FALSE
                /\ runs' = MapSet(runs, t.id,
                                  Run(active, t.method, "skipped", FALSE, FALSE))
           ELSE /\ isCalculating' = TRUE
                /\ runs' = MapSet(runs, t.id,
                                  Run(active, t.method, "inflight", TRUE, FALSE))
                /\ UNCHANGED varResults
    /\ UNCHANGED <<instruments, simulationMethod, pending, renders, toasts,
                   now, nextId, ops, providerVars>>

\* The await yields the provider's data: calculateVaR runs, and its result
\* is stored or its fault caught.
RunReturns(id) ==
    /\ pending = <<>>
    /\ runs[id].status = "inflight"
    /\ \E o \in GetHistoricalDataOnClientOutcomes(file, runs[id].active) :
           IF o.threw
           THEN /\ varResults' = AfterCatch(varResults)
                /\ toasts' = toasts \cup {"Calculation Error"}
                /\ runs' = [runs EXCEPT ![id].status = "failed"]
           ELSE \E e \in CalculateVaROutcomes(runs[id].active, o.value, runs[id].method) :
                    IF e.threw
                    THEN /\ varResults' = AfterCatch(varResults)
                         /\ toasts' = toasts \cup {"Calculation Error"}
                         /\ runs' = [runs EXCEPT ![id].status = "failed",
                                                 ![id].engine = TRUE,
                                                 ![id].data = o.value]
                    ELSE /\ varResults' = e.value
                         /\ runs' = [runs EXCEPT ![id].status = "done",
                                                 ![id].engine = TRUE,
                                                 ![id].data = o.value]
                         /\ UNCHANGED toasts
    /\ isCalculating' = FALSE
    /\ UNCHANGED <<instruments, simulationMethod, pending, timers, renders,
                   now, nextId, ops, providerVars>>

\* Mutant of RunProviderFault: the flag is reset at the end of the try block
\* only, not in a finally.
RunProviderFaultNoFinally(id) ==
    /\ pending = <<>>
    /\ runs[id].status = "inflight"
    /\ varResults' = AfterCatch(varResults)
    /\ toasts' = toasts \cup {"Calculation Error"}
    /\ runs' = [runs EXCEPT ![id].status = "failed"]
    /\ UNCHANGED <<instruments, simulationMethod, isCalculating, pending, timers,
                   renders, now, nextId, ops, providerVars>>

\* The await rejects: the call of the server function failed.
RunProviderFault(id) ==
    /\ pending = <<>>
    /\ runs[id].status = "inflight"
    /\ varResults' = AfterCatch(varResults)
    /\ toasts' = toasts \cup {"Calculation Error"}
    /\ runs' = [runs EXCEPT ![id].status = "failed"]
    /\ isCalculating' = FALSE
    /\ UNCHANGED <<instruments, simulationMethod, pending, timers, renders,
                   now, nextId, ops, providerVars>>

SampleFile ==
    [readable |-> TRUE,
     lines |-> << Header,
                  <<"2024-01-02", "A", "-5">>,
                  <<"2024-01-01", "A", "100">>,
                  <<"2024-01-03", "B", "100">> >>]

Init ==
    /\ InitPage
    /\ file = SampleFile
    /\ reqInstruments = <<>>
    /\ pcP = "idle"
    /\ allPriceData = EmptyMap
    /\ returnsData = EmptyMap
    /\ readLog = <<>>

Next ==
    \/ \E symbol \in PageSymbols : AddInstrument(symbol)
    \/ \E i \in DOMAIN instruments : RemoveInstrument(instruments[i].id)
    \/ \E i \in DOMAIN instruments : ToggleInstrument(instruments[i].id)
    \/ \E method \in Methods : SetSimulationMethod(method)
    \/ Render
    \/ Advance
    \/ \E t \in timers : TimerFire(t)
    \/ \E id \in DOMAIN runs : RunProviderFault(id)
    \/ \E id \in DOMAIN runs : RunReturns(id)

Spec == Init /\ [][Next]_vars

(***************************************************************************)
(* The provider's claims, checked under SpecProvider.                      *)
(***************************************************************************)
\* The symbols of the instruments passed to getHistoricalData.
Requested == {reqInstruments[i].symbol : i \in DOMAIN reqInstruments}

\* The data rows of the source f that give a price observation of symbol:
\* the lines after the first with a date, that symbol and a price.
Observations(f, symbol) ==
    IF ~f.readable THEN {}
    ELSE {i \in 2..Len(f.lines) :
             /\ Len(f.lines[i]) >= 3
             /\ f.lines[i][1] # ""
             /\ f.lines[i][2] = symbol
             /\ f.lines[i][3] # ""}

\* C1: getHistoricalData never raises, and its result has a key for the
\* symbol of every instrument passed in; a symbol absent from the source or
\* with fewer than 2 observations maps to the empty series.
C1_KeyForEverySymbol ==
    /\ pcP # "raised"
    /\ pcP = "done" =>
          /\ DOMAIN returnsData = Requested
          /\ \A s \in Requested :
                 Cardinality(Observations(file, s)) < 2 => returnsData[s] = <<>>

\* C1 witness: a call for an absent symbol and for one with a single
\* observation has returned.
C1_Witness ==
    /\ pcP = "done"
    /\ file.readable
    /\ Requested = {"A", "C"}
    /\ Cardinality(Observations(file, "A")) = 1
    /\ Observations(file, "C") = {}

\* C2: the series returned for a symbol has one entry less than the symbol
\* has observations, and none when it has fewer than 2.
C2_SeriesLength ==
    pcP = "done" =>
        \A s \in Requested :
            LET n == Cardinality(Observations(file, s))
            IN  Len(returnsData[s]) = IF n >= 2 THEN n - 1 ELSE 0

\* C2 witness: three observations, one of them a zero price, gave two returns.
C2_Witness ==
    /\ pcP = "done"
    /\ "A" \in Requested
    /\ Cardinality(Observations(file, "A")) = 3
    /\ \E i \in Observations(file, "A") : file.lines[i][3] = "0"
    /\ Len(returnsData["A"]) = 2

\* The return r is the exact quotient (today - yesterday) / yesterday of two
\* finite prices, yesterday # 0.
IsQuotient(r, yesterday, today) ==
    /\ r.kind = "fin"
    /\ r.den > 0
    /\ r.num * yesterday.num * today.den
          = (today.num * yesterday.den - yesterday.num * today.den) * r.den

\* C3: the return at position i-1 is (price[i] - price[i-1]) / price[i-1],
\* and exactly 0, never an infinity or NaN, when price[i-1] is 0.
C3_ReturnFormula ==
    pcP = "done" =>
        \A s \in Requested \cap DOMAIN allPriceData :
            LET prices == allPriceData[s]
                returns == returnsData[s]
            IN  Len(prices) > 1 =>
                  /\ Len(returns) = Len(prices) - 1
                  /\ \A i \in 2..Len(prices) :
                        LET yesterday == prices[i - 1].price
                            today == prices[i].price
                        IN  IF yesterday.kind = "fin" /\ yesterday.num = 0
                            THEN returns[i - 1] = Fin(0)
                            ELSE IF yesterday.kind = "fin" /\ today.kind = "fin"
                            THEN IsQuotient(returns[i - 1], yesterday, today)
                            ELSE returns[i - 1].kind = "nan"

\* C3 witness: a zero price is followed by a nonzero price.
C3_Witness ==
    /\ pcP = "done"
    /\ "A" \in Requested \cap DOMAIN allPriceData
    /\ \E i \in 2..Len(allPriceData["A"]) :
          /\ allPriceData["A"][i - 1].price = Fin(0)
          /\ allPriceData["A"][i].price = Fin(100)
          /\ returnsData["A"][i - 1] = Fin(0)

\* The sources that hold the data rows of f in another order.
ReorderedFiles(f) ==
    IF ~f.readable \/ Len(f.lines) <= 1 THEN {f}
    ELSE {[readable |-> TRUE, lines |-> <<Head(f.lines)>> \o rows] :
             rows \in Reorderings(Tail(f.lines))}

\* C4 as claimed: whatever the order of the data rows, the series returned
\* for every symbol is the same.
C4_OrderIndependent ==
    pcP = "done" =>
        \A f \in ReorderedFiles(file) :
            \A o \in GetHistoricalDataOutcomes(f, reqInstruments) :
                /\ ~o.threw
                /\ \A s \in Requested : o.value[s] = returnsData[s]

\* Every observation of symbol in f has a valid date, and no two of them
\* the same date.
DistinctValidDates(f, symbol) ==
    \A i, j \in Observations(f, symbol) :
        /\ f.lines[i][1] \in {"2024-01-01", "2024-01-02", "2024-01-03"}
        /\ i # j => f.lines[i][1] # f.lines[j][1]

\* C4 amended: the series returned for a symbol whose observations have
\* valid, pairwise different dates is the same whatever the order of the
\* data rows.
C4_OrderIndependentDistinctDates ==
    pcP = "done" =>
        \A f \in ReorderedFiles(file) :
            \A o \in GetHistoricalDataOutcomes(f, reqInstruments) :
                /\ ~o.threw
                /\ \A s \in Requested :
                       DistinctValidDates(file, s) => o.value[s] = returnsData[s]

\* C4 witness: three observations in reverse chronological order.
C4_Witness ==
    /\ pcP = "done"
    /\ "A" \in Requested
    /\ Observations(file, "A") = {2, 3, 4}
    /\ file.lines[2][1] = "2024-01-03"
    /\ file.lines[3][1] = "2024-01-02"
    /\ file.lines[4][1] = "2024-01-01"
    /\ Len(returnsData["A"]) = 2

HeaderOnlyFile == [readable |-> TRUE, lines |-> <<Header>>]

\* C5: over an unreadable source getHistoricalData does not raise and
\* returns what it returns over a readable source with no data rows: the
\* empty series for every requested symbol.
C5_UnreadableAsNoData ==
    /\ pcP # "raised"
    /\ (pcP = "done" /\ (~file.readable \/ Len(file.lines) <= 1)) =>
          /\ returnsData = [s \in Requested |-> <<>>]
          /\ GetHistoricalDataOutcomes(HeaderOnlyFile, reqInstruments)
                = {Returned(returnsData)}

\* C5 witness: a call over an unreadable source has returned.
C5_Witness ==
    /\ pcP = "done"
    /\ ~file.readable
    /\ Requested = {"A", "C"}

(***************************************************************************)
(* The page component's claims, checked under Spec.                        *)
(***************************************************************************)
\* C6: a runCalculation whose list has no included instrument invokes
\* neither the provider nor the engine, and sets varResults to null.
C6_NoActiveShortCircuits ==
    /\ [](\A id \in DOMAIN runs :
             runs[id].active = <<>> =>
                 /\ runs[id].status = "skipped"
                 /\ ~runs[id].provider
                 /\ ~runs[id].engine)
    /\ [][\A id \in DOMAIN runs' :
             (id \notin DOMAIN runs /\ runs'[id].active = <<>>)
                 => varResults' = Null]_vars

\* C6 witness: after a run stored a result, every instrument was toggled
\* off or removed, and the next run short-circuited.
C6_Witness ==
    \E id1, id2 \in DOMAIN runs :
        /\ id1 < id2
        /\ runs[id1].status = "done"
        /\ runs[id2].status = "skipped"
        /\ varResults = Null

\* C7: a change followed by another less than 500ms later never starts its
\* runCalculation; the only live timer is the last change's, and a run has
\* the instruments and method of the render that scheduled it.
C7_Debounce ==
    /\ \A id \in DOMAIN runs :
          /\ id < Len(renders) =>
                renders[id + 1].at - renders[id].at >= DebounceMs
          /\ runs[id].active = ActiveInstruments(renders[id].instruments)
          /\ runs[id].method = renders[id].method
    /\ \A t \in timers :
          /\ t.id = Len(renders)
          /\ t.instruments = instruments
          /\ t.method = simulationMethod

\* C7 witness: of two changes less than 500ms apart the second started its
\* run and the first did not.
C7_Witness ==
    \E id \in DOMAIN runs :
        /\ id > 1
        /\ renders[id].at - renders[id - 1].at < DebounceMs
        /\ renders[id].at > renders[id - 1].at
        /\ (id - 1) \notin DOMAIN runs
        /\ runs[id].status = "inflight"

\* C8 as claimed: a run that a later change superseded while it was in
\* flight ends without writing varResults.
C8_SupersededDiscarded ==
    [][\A id \in DOMAIN runs :
          (/\ runs[id].status = "inflight"
           /\ runs'[id].status # "inflight"
           /\ id < Len(renders))
              => varResults' = varResults]_vars

\* C9 as claimed: a run that ends in a caught fault shows the notification
\* and leaves varResults null.
C9_FaultClearsResult ==
    [][\A id \in DOMAIN runs :
          (runs[id].status = "inflight" /\ runs'[id].status = "failed")
              => /\ "Calculation Error" \in toasts'
                 /\ varResults' = Null]_vars

\* C10 as claimed: no two instruments of the list have the same symbol.
C10_UniqueSymbols ==
    \A i, j \in DOMAIN instruments :
        i # j => instruments[i].symbol # instruments[j].symbol

\* A data row in which the date, the symbol or the price is missing.
MissingField(row) == Len(row) < 3 \/ \E k \in 1..3 : row[k] = ""

\* The source f without its line i.
WithoutLine(f, i) ==
    [f EXCEPT !.lines = SubSeq(f.lines, 1, i - 1) \o SubSeq(f.lines, i + 1, Len(f.lines))]

\* C13: a data row with a missing date, symbol or price does not make the
\* call fail, adds no price record, and leaves the result what it is for the
\* source without that row.
C13_IncompleteRowSkipped ==
    \A i \in 2..Len(file.lines) :
        MissingField(file.lines[i]) =>
            /\ pcP # "raised"
            /\ pcP \in {"parsed", "done"} =>
                   Returned(allPriceData) \in ParseCsvDataOutcomes(WithoutLine(file, i))
            /\ pcP = "done" =>
                   Returned(returnsData)
                       \in GetHistoricalDataOutcomes(WithoutLine(file, i), reqInstruments)

\* A finished call over a source with two complete rows of a requested
\* symbol and a row of that symbol that lacks its price.
C13_Witness ==
    /\ pcP = "done"
    /\ \E i \in 2..Len(file.lines) :
           /\ MissingField(file.lines[i])
           /\ Len(file.lines[i]) = 3
           /\ file.lines[i][2] = "A"
    /\ "A" \in DOMAIN returnsData
    /\ Len(returnsData["A"]) = 1

\* C14 as claimed: every price record parseCsvData stores has a numeric,
\* non-negative price.
C14_PricesNonNegative ==
    \A s \in DOMAIN allPriceData :
        \A i \in DOMAIN allPriceData[s] :
            /\ allPriceData[s][i].price.kind = "fin"
            /\ allPriceData[s][i].price.num >= 0

\* C15: a call reads the source once, before any series is computed, and its
\* result is the result over the content it read then, whatever the source
\* has become since.
C15_OneSnapshot ==
    /\ Len(readLog) <= 1
    /\ pcP = "start" => readLog = <<>> /\ returnsData = EmptyMap
    /\ pcP \in {"parsed", "done"} =>
           /\ Len(readLog) = 1
           /\ Returned(allPriceData) \in ParseCsvDataOutcomes(readLog[1])
    /\ pcP = "done" =>
           Returned(returnsData) \in GetHistoricalDataOutcomes(readLog[1], reqInstruments)

\* A finished call for A and B whose source was edited between the read and
\* the instrument loop: the result has a return for A and none for B, the source as it is
\* now would give a return for B and none for A.
C15_Witness ==
    /\ pcP = "done"
    /\ file # readLog[1]
    /\ DOMAIN returnsData = {"A", "B"}
    /\ Len(returnsData["A"]) = 1
    /\ returnsData["B"] = <<>>
    /\ \A o \in GetHistoricalDataOutcomes(file, reqInstruments) :
           ~o.threw /\ o.value["A"] = <<>> /\ Len(o.value["B"]) = 1

\* The lines of f that survive when every data row of another symbol is
\* taken out.
RECURSIVE RowsOf(_, _)
RowsOf(rows, symbol) ==
    IF rows = <<>> THEN <<>>
    ELSE IF Field(Head(rows), 2) = symbol
         THEN <<Head(rows)>> \o RowsOf(Tail(rows), symbol)
         ELSE RowsOf(Tail(rows), symbol)

\* The source with the rows of symbol that f has, in f's order, and no other
\* data row: two sources agree on the rows of symbol exactly when they have
\* the same projection.
Projection(f, symbol) ==
    IF ~f.readable \/ f.lines = <<>> THEN HeaderOnlyFile
    ELSE [readable |-> TRUE,
          lines |-> <<Head(f.lines)>> \o RowsOf(Tail(f.lines), symbol)]

\* The series getHistoricalData(insts) may return for symbol over f.
SeriesOutcomes(f, insts, symbol) ==
    {o.value[symbol] : o \in {r \in GetHistoricalDataOutcomes(f, insts) : ~r.threw}}

\* C17: the series returned for a requested symbol is the series a request
\* for that symbol alone gets over the projection of the source on that
\* symbol, so it is the same for all sources with the same rows of the symbol
\* and all instrument lists that contain it.
C17_SeriesOfOwnRowsOnly ==
    \A symbol \in Requested :
        LET alone == SeriesOutcomes(Projection(file, symbol),
                                    <<Instrument(1, symbol, TRUE)>>, symbol)
        IN  pcP = "done" =>
                /\ returnsData[symbol] \in alone
                /\ SeriesOutcomes(file, reqInstruments, symbol) = alone

\* A finished call for A and another symbol, over a source with two rows of
\* A and a complete row of B.
C17_Witness ==
    /\ pcP = "done"
    /\ Len(reqInstruments) = 2
    /\ "A" \in Requested
    /\ returnsData["A"] # <<>>
    /\ Observations(file, "B") # {}
    /\ Projection(file, "A") # file

\* The runs that are awaiting the provider.
InFlight == {id \in DOMAIN runs : runs[id].status = "inflight"}

\* C11 as claimed: at most one runCalculation is in flight at any moment.
C11_SingleRunInFlight == Cardinality(InFlight) <= 1

\* C12: every run that invoked calculateVaR handed it a non-empty list, made
\* of instruments of the rendering the run was created from that are included
\* there, and a returns mapping with a key for the symbol of each of them.
C12_EngineArguments ==
    \A id \in DOMAIN runs :
        runs[id].engine =>
            /\ runs[id].active # <<>>
            /\ \A i \in DOMAIN runs[id].active :
                   /\ runs[id].active[i].included
                   /\ \E j \in DOMAIN renders[id].instruments :
                          renders[id].instruments[j] = runs[id].active[i]
                   /\ runs[id].active[i].symbol \in DOMAIN runs[id].data

\* calculateVaR was invoked for a rendering with an excluded instrument and
\* an included one.
C12_Witness ==
    \E id \in DOMAIN runs :
        /\ runs[id].engine
        /\ Len(runs[id].active) = 1
        /\ Len(renders[id].instruments) = 2
        /\ runs[id].active[1].symbol \in DOMAIN runs[id].data

\* C16: isCalculating is false whenever no runCalculation is in flight, and
\* every step in which a run ends (short-circuited, completed or failed)
\* leaves it false, whatever other runs are in flight.
C16_FlagResetWhenIdle ==
    /\ [](InFlight = {} => isCalculating = FALSE)
    /\ [][\A id \in DOMAIN runs' :
             (/\ runs'[id].status # "inflight"
              /\ id \in DOMAIN runs => runs[id].status = "inflight")
                 => isCalculating' = FALSE]_vars

\* Three runs have ended, one short-circuited, one in a caught fault and one
\* with a result, and none is in flight.
C16_Witness ==
    /\ InFlight = {}
    /\ isCalculating = FALSE
    /\ \E id1, id2, id3 \in DOMAIN runs :
           /\ runs[id1].status = "skipped"
           /\ runs[id2].status = "failed"
           /\ runs[id3].status = "done"

====
